---- MODULE Spec2Model ----
(***************************************************************************)
(* Model of donkeycar/templates/path_follower.py: the vehicle assembled by *)
(* drive(cfg), its parts, the blackboard they exchange values through, the *)
(* drive loop that sequences them and the background loop of the remote    *)
(* odometry client (OdomRemoteAdapter).                                    *)
(*                                                                         *)
(* Units.  Blackboard values are wrapped: None is the empty tuple and a    *)
(* present value v is <<v>>.  Steering commands are integers in            *)
(* {-1, 0, 1} (full left, straight, full right), steering angles are in    *)
(* units of MAX_STEER_RAD, and lengths are in units of the full-lock       *)
(* turning radius R0 = |L| / tan(MAX_STEER_RAD).                           *)
(*                                                                         *)
(* Numbers.  The floats of the localizer are modelled on three scales: the *)
(* quarter turn pi/2, a small angle e that does not exceed the threshold   *)
(* 0.001 of CarKinematics.run, and a tiny quantity t that is below half    *)
(* an ulp of every number of the other two scales.  An angle, and a        *)
(* travelled distance (an arc length at radius R0), is a triple            *)
(* <<q, m, t>> standing for q * pi/2 + m * e + t * tiny.  A coordinate is  *)
(* a tuple of eight integers, the coefficients of                          *)
(*    1, e, e^2/2, pi/2, (pi/2) e, (pi/2) e^2/2, tiny, (pi/2) tiny.        *)
(* Arithmetic is exact up to terms in e^3, which stand for the             *)
(* floating-point tolerance, and a float addition rounds a tiny part away  *)
(* whenever the sum has a part of a larger scale.                          *)
(***************************************************************************)
EXTENDS Integers, Sequences, FiniteSets, TLC

VARIABLES
    strategy,     \* which localizer drive() registers: "kinematic" | "remote"
    MAX_LOOPS,    \* cfg.MAX_LOOPS
    log_level,    \* args['--log'] (None when the option is not given)
    DRIVE_LOOP_HZ,  \* cfg.DRIVE_LOOP_HZ
    phase,        \* "main" (before drive) | "init" | "run" | "stop" | "done",
                  \* or "failed": the program ended before the drive loop
    idx,          \* index of the part the drive loop handles next (0: between ticks)
    loop_count,   \* V.start's tick counter
    cause,        \* why the loop ended: "none" | "max" | "signal" | "raise"
    mem,          \* V.mem, the blackboard
    writer,       \* per key: the part that wrote it last ("" = never)
    wtick,        \* per key: the tick (1-based) of that write (0 = never)
    ran,          \* parts invoked so far in the current tick, in order
    ticksDone,    \* tick cycles carried out to their end
    threads,      \* per part: how often its background thread was started
    shutdownLog,  \* parts whose shutdown hook was invoked, in order
    kin,          \* CarKinematics: x, y, theta, L
    trip,         \* history of CarKinematics.run: calls, inputs, distance sum
    odom,         \* OdomRemoteAdapter: frame, running, odom_vel_ms, pos
    upc,          \* OdomRemoteAdapter.update: "idle"|"check"|"send"|"recv"|"exit"
    rt,           \* OdomRemoteAdapter.run_threaded in progress: pc and x read
    sd,           \* OdomRemoteAdapter.shutdown in progress (sleeping)
    sock,         \* REQ socket: request in flight, reply in flight
    sent,         \* frames of the requests sent so far, in order
    nrecv,        \* replies received so far
    t265,         \* T265Server: proc alive, __del__ ran
    origin,       \* OriginOffset: ox, oy, last_x, last_y
    path,         \* Path: recorded points
    pid,          \* PIDController: Kd, integral, prev_err, prev_tm
    ev,           \* PID_Pilot.run in progress: pc, the steering computed, and
                  \* the gain Kd and the error difference it was computed from
    buttons       \* button-down events handled so far

vars == <<strategy, MAX_LOOPS, log_level, DRIVE_LOOP_HZ, phase, idx, loop_count, cause, mem, writer, wtick,
          ran, ticksDone, threads, shutdownLog, kin, trip, odom, upc, rt, sd,
          sock, sent, nrecv, t265, origin, path, pid, ev, buttons>>

(***************************************************************************)
(* Bounds of the model.                                                    *)
(***************************************************************************)
MaxLoops == 2        \* cfg.MAX_LOOPS ranges over 1..MaxLoops
MaxRemoteLoops == 1  \* the same, in the build with the remote odometry client
MaxFrames == 2       \* telemetry requests the client may send while running
MaxButtons == 1      \* button-down events the controller thread may fire
MaxUpdates == 3      \* calls of CarKinematics.run on the localizer alone

(***************************************************************************)
(* Values.                                                                 *)
(***************************************************************************)
None == <<>>
Some(v) == <<v>>
Num(n) == <<n, 0, 0, 0, 0, 0, 0, 0>>    \* the length n * R0
\* A float result: a tiny part next to a part of a larger scale is rounded away.
Round(c) ==
    IF \E i \in 1..6 : c[i] # 0
    THEN [i \in 1..8 |-> IF i > 6 THEN 0 ELSE c[i]]
    ELSE c
Add(p, q) == Round([i \in 1..8 |-> p[i] + q[i]])
Neg(p) == [i \in 1..8 |-> 0 - p[i]]
Scale(n, p) == [i \in 1..8 |-> n * p[i]]
\* The same for angles and distances <<q, m, t>>.
Ang(q, m, t) == <<q, m, t>>
AngRound(a) == IF a[1] # 0 \/ a[2] # 0 THEN <<a[1], a[2], 0>> ELSE a
AngAdd(a, b) == AngRound(<<a[1] + b[1], a[2] + b[2], a[3] + b[3]>>)
AngScale(n, a) == <<n * a[1], n * a[2], n * a[3]>>
\* -1, 0 or 1: the sign of the number a stands for.
AngSign(a) ==
    LET lead == IF a[1] # 0 THEN a[1] ELSE IF a[2] # 0 THEN a[2] ELSE a[3]
    IN  IF lead > 0 THEN 1 ELSE IF lead < 0 THEN -1 ELSE 0

Modes == {"user", "local_angle", "local"}
UserInputs == {<<0, 0>>, <<1, 1>>}      \* joystick (angle, throttle), of [-1, 1]
EncReadings == {Ang(0, 0, 0), Ang(1, 0, 0)}  \* distance travelled per poll
Increments ==                           \* dist_m of a call on the localizer alone
    {Ang(0, 0, 0), Ang(1, 0, 0), Ang(-1, 0, 0), Ang(2, 0, 0), Ang(2, -1, 0),
     Ang(0, 1, 0), Ang(0, -1, 0), Ang(0, 0, 1), Ang(0, 0, -1)}
SteeringAngles == {-1, 0, 1}            \* and its steering_angle_radians
PoseReplies == {<<1, 1>>, <<2, 2>>}     \* (x, z) the remote process may reply
RaisingParts == {"enc", "cte", "throttle"}  \* imported parts that may raise
LogOptions == {None, Some("debug"), Some("bogus"), Some("basic_format")}
Rates == {-20, 0, 20}                   \* values of cfg.DRIVE_LOOP_HZ
Wheelbases == {-1, 0, 1}                \* values of front_rear_wheel_dist_m

(***************************************************************************)
(* The parts drive(cfg) registers with V.add, in registration order.       *)
(* cfg.DONKEY_GYM is false; USE_KINEMATIC_MODEL / ODOM_PLUS_RS_T265 select  *)
(* the localizer (strategy).                                               *)
(***************************************************************************)
Part(n, i, o, t, c) ==
    [name |-> n, inputs |-> i, outputs |-> o, threaded |-> t, run_condition |-> c]

P_enc ==
    Part("enc", <<>>, <<"enc/dist_m", "enc/vel_m_s", "enc/delta_dist_m">>, TRUE, "")
P_ctr ==
    Part("ctr", <<"null">>,
         <<"user/angle", "user/throttle", "user/mode", "recording">>, TRUE, "")
P_steer_to_rad ==
    Part("steer_to_rad", <<"user/angle">>, <<"steering/radian">>, FALSE, "")
P_carKine ==
    Part("carKine", <<"enc/delta_dist_m", "steering/radian">>, <<"pos/x", "pos/y">>,
         FALSE, "")
P_t265 ==
    Part("t265", <<>>, <<>>, FALSE, "")
\* mutant: the client registered without threaded=True
P_odom_unthreaded ==
    Part("odom", <<"enc/vel_m_s">>, <<"pos/x", "pos/y">>, FALSE, "")
P_odom ==
    Part("odom", <<"enc/vel_m_s">>, <<"pos/x", "pos/y">>, TRUE, "")
P_origin_reset ==
    Part("origin_reset", <<"pos/x", "pos/y">>, <<"pos/x", "pos/y">>, FALSE, "")
P_UserCondition ==
    Part("UserCondition", <<"user/mode">>, <<"run_user">>, FALSE, "")
P_PilotCondition ==
    Part("PilotCondition", <<"user/mode">>, <<"run_pilot">>, FALSE, "")
P_path ==
    Part("path", <<"pos/x", "pos/y">>, <<"path">>, FALSE, "run_user")
P_img ==
    Part("img", <<>>, <<"map/image">>, FALSE, "")
P_plot ==
    Part("plot", <<"map/image", "path">>, <<"map/image">>, FALSE, "")
\* mutant: the CTE part registered without its run_condition
P_cte_unconditional ==
    Part("cte", <<"path", "pos/x", "pos/y">>, <<"cte/error">>, FALSE, "")
P_cte ==
    Part("cte", <<"path", "pos/x", "pos/y">>, <<"cte/error">>, FALSE, "run_pilot")
P_pilot ==
    Part("pilot", <<"cte/error">>, <<"pilot/angle", "pilot/throttle">>, FALSE,
         "run_pilot")
P_loc_plot ==
    Part("loc_plot", <<"map/image", "pos/x", "pos/y">>, <<"map/image">>, FALSE, "")
P_web_ctr ==
    Part("web_ctr", <<"map/image">>,
         <<"web/angle", "web/throttle", "web/mode", "web/recording">>, TRUE, "")
P_DriveMode ==
    Part("DriveMode",
         <<"user/mode", "user/angle", "user/throttle", "pilot/angle", "pilot/throttle">>,
         <<"angle", "throttle">>, FALSE, "")
P_steering ==
    Part("steering", <<"angle">>, <<>>, FALSE, "")
P_throttle ==
    Part("throttle", <<"throttle">>, <<>>, FALSE, "")

\* lines 141-157: the encoder and the controller
HeadParts == <<P_enc, P_ctr>>
\* lines 185-193: USE_KINEMATIC_MODEL
KinematicParts == <<P_steer_to_rad, P_carKine>>
\* mutant: the client registered before the server
RemoteParts_swapped == <<P_odom, P_t265>>
\* lines 195-204: ODOM_PLUS_RS_T265
RemoteParts == <<P_t265, P_odom>>
\* mutant: the origin offset registered after the parts that read the position
TailParts_late_origin ==
    <<P_UserCondition, P_PilotCondition, P_path, P_img, P_plot, P_cte, P_pilot,
      P_loc_plot, P_origin_reset, P_web_ctr, P_DriveMode, P_steering, P_throttle>>
\* lines 218-329
TailParts ==
    <<P_origin_reset, P_UserCondition, P_PilotCondition, P_path, P_img, P_plot,
      P_cte, P_pilot, P_loc_plot, P_web_ctr, P_DriveMode, P_steering, P_throttle>>

Parts ==
    HeadParts \o (IF strategy = "remote" THEN RemoteParts ELSE KinematicParts)
              \o TailParts

NParts == Len(Parts)
PartNames ==
    {"enc", "ctr", "steer_to_rad", "carKine", "t265", "odom", "origin_reset",
     "UserCondition", "PilotCondition", "path", "img", "plot", "cte", "pilot",
     "loc_plot", "web_ctr", "DriveMode", "steering", "throttle"}
Keys ==
    {"enc/dist_m", "enc/vel_m_s", "enc/delta_dist_m", "null", "user/angle",
     "user/throttle", "user/mode", "recording", "steering/radian", "pos/x", "pos/y",
     "run_user", "run_pilot", "path", "map/image", "cte/error", "pilot/angle",
     "pilot/throttle", "web/angle", "web/throttle", "web/mode", "web/recording",
     "angle", "throttle"}

\* The index of the part called n in the registration order (0: not registered).
IdxOf(n) ==
    IF \E i \in 1..NParts : Parts[i].name = n
    THEN CHOOSE i \in 1..NParts : Parts[i].name = n
    ELSE 0

\* Parts defined in this file and the methods they have; every other part
\* is imported from donkeycar.parts.
LocalParts ==
    {"steer_to_rad", "carKine", "t265", "odom", "UserCondition", "PilotCondition",
     "DriveMode"}
HasRun(n) == n \in PartNames \ {"odom"}
HasRunThreaded(n) == n \in PartNames \ (LocalParts \ {"odom"})
HasShutdown(n) == n \in PartNames \ (LocalParts \ {"t265", "odom"})

(***************************************************************************)
(* The parts defined in path_follower.py.                                  *)
(***************************************************************************)
MAX_STEER_RAD == 1         \* the unit of steering angles (15 degrees)
FRONT_REAR_WHEELDIST_M == 1  \* L, in units of R0 * tan(MAX_STEER_RAD)

\* Steer_to_rad.run
Steer_to_rad_run(steer) == steer * MAX_STEER_RAD

\* sin and cos of q quarter turns
Sin(q) == CASE q % 4 = 0 -> 0 [] q % 4 = 1 -> 1 [] q % 4 = 2 -> 0 [] OTHER -> -1
Cos(q) == Sin(q + 1)
\* math.sin and math.cos of the angle a, as coordinates: of a tiny angle
\* they are the angle and 1; otherwise, with sin(m e) = m e and
\* cos(m e) = 1 - m^2 e^2/2, they follow from the addition theorems.
math_sin(a) ==
    IF a[1] = 0 /\ a[2] = 0
    THEN <<0, 0, 0, 0, 0, 0, a[3], 0>>
    ELSE <<Sin(a[1]), Cos(a[1]) * a[2], 0 - Sin(a[1]) * a[2] * a[2], 0, 0, 0, 0, 0>>
math_cos(a) ==
    IF a[1] = 0 /\ a[2] = 0
    THEN Num(1)
    ELSE <<Cos(a[1]), 0 - Sin(a[1]) * a[2], 0 - Cos(a[1]) * a[2] * a[2], 0, 0, 0, 0, 0>>
\* tan of a steering angle in {-1, 0, 1} * MAX_STEER_RAD, in units of
\* tan(MAX_STEER_RAD)
Tan(s) == s
Abs(n) == IF n < 0 THEN 0 - n ELSE n
\* The product of the distance d and the sine or cosine c; products below
\* the tiny scale underflow to 0.
Times(d, c) ==
    Round(<<0, d[2] * c[1], 2 * d[2] * c[2],
            d[1] * c[1], d[1] * c[2], d[1] * c[3],
            d[3] * c[1], d[1] * c[7]>>)
\* abs(B) > thresh, thresh = 0.001: the small and the tiny scale do not
\* exceed it, a multiple of the quarter turn does.
ExceedsThresh(B) == B[1] # 0
\* Python's a % (2.0 * math.pi) on floats: fmod, which is exact and has the
\* sign of a, and then, for a negative remainder, the float addition of
\* 2 pi, which rounds.
fmod_2pi(a) ==
    IF AngSign(a) < 0
    THEN LET b == AngScale(-1, a)
             q == IF b[2] < 0 THEN ((b[1] - 1) % 4) + 1 ELSE b[1] % 4
         IN  AngScale(-1, <<q, b[2], b[3]>>)
    ELSE <<IF a[2] < 0 THEN ((a[1] - 1) % 4) + 1 ELSE a[1] % 4, a[2], a[3]>>
float_mod_2pi(a) ==
    LET mod == fmod_2pi(a)
    IN  IF AngSign(mod) < 0 THEN AngAdd(mod, Ang(4, 0, 0)) ELSE mod

\* CarKinematics.__init__
CarKinematics_new(x, y, theta, front_rear_wheel_dist_m) ==
    [x |-> x, y |-> y, theta |-> theta, L |-> front_rear_wheel_dist_m]
\* as called at line 192
CarKinematics_init ==
    CarKinematics_new(Num(0), Num(0), Ang(0, 0, 0), FRONT_REAR_WHEELDIST_M)

\* line 104 divides by self.L: ZeroDivisionError
CarKinematics_run_raises(k) == k.L = 0

\* mutant: the near-straight branch advances along the x axis, whatever the heading
CarKinematics_run_along_x(k, dist_m, steering_angle_radians) ==
    LET B0 == AngScale(Tan(steering_angle_radians), AngScale(k.L, dist_m))
    IN  IF ExceedsThresh(B0)
        THEN LET R == k.L * Tan(steering_angle_radians)
                 B == AngScale(R, dist_m)
                 Xc == Add(k.x, Neg(Scale(R, math_sin(k.theta))))
                 Yc == Add(k.y, Scale(R, math_cos(k.theta)))
             IN  [k EXCEPT
                    !.x = Add(Xc, Scale(R, math_sin(AngAdd(k.theta, B)))),
                    !.y = Add(Yc, Neg(Scale(R, math_cos(AngAdd(k.theta, B))))),
                    !.theta = float_mod_2pi(AngAdd(k.theta, B))]
        ELSE [k EXCEPT
                !.x = Add(k.x, Times(dist_m, Num(1))),
                !.theta = float_mod_2pi(AngAdd(k.theta, B0))]

\* CarKinematics.run: the pose after travelling dist_m at steering angle
\* steering_angle_radians from pose k.  L is 1 or -1 here, so dividing by L
\* and by R is multiplying by them.
CarKinematics_run(k, dist_m, steering_angle_radians) ==
    LET B0 == AngScale(Tan(steering_angle_radians), AngScale(k.L, dist_m))
    IN  IF ExceedsThresh(B0)
        THEN LET R == k.L * Tan(steering_angle_radians)
                 B == AngScale(R, dist_m)
                 Xc == Add(k.x, Neg(Scale(R, math_sin(k.theta))))
                 Yc == Add(k.y, Scale(R, math_cos(k.theta)))
             IN  [k EXCEPT
                    !.x = Add(Xc, Scale(R, math_sin(AngAdd(k.theta, B)))),
                    !.y = Add(Yc, Neg(Scale(R, math_cos(AngAdd(k.theta, B))))),
                    !.theta = float_mod_2pi(AngAdd(k.theta, B))]
        ELSE [k EXCEPT
                !.x = Add(k.x, Times(dist_m, math_cos(k.theta))),
                !.y = Add(k.y, Times(dist_m, math_sin(k.theta))),
                !.theta = float_mod_2pi(AngAdd(k.theta, B0))]

\* The history of the calls of CarKinematics.run: how many, the inputs of
\* the last one, whether the steering angle was the same in all of them,
\* and the exact sum of the distances.
Trip_init == [n |-> 0, dist_m |-> Ang(0, 0, 0), angle |-> 0, same |-> TRUE,
              sum |-> Ang(0, 0, 0)]
Trip_after(t, dist_m, steering_angle_radians) ==
    [n |-> t.n + 1, dist_m |-> dist_m, angle |-> steering_angle_radians,
     same |-> t.same /\ (t.n = 0 \/ t.angle = steering_angle_radians),
     sum |-> <<t.sum[1] + dist_m[1], t.sum[2] + dist_m[2], t.sum[3] + dist_m[3]>>]

\* UserCondition.run
UserCondition_run(mode) == IF mode = Some("user") THEN TRUE ELSE FALSE

\* mutant: the pilot is enabled in mode local alone
PilotCondition_run_local(mode) == IF mode = Some("local") THEN TRUE ELSE FALSE

\* PilotCondition.run
PilotCondition_run(mode) == IF mode = Some("user") THEN FALSE ELSE TRUE

\* mutant: mode local_angle falls through to the fully autonomous result
DriveMode_run_fall(mode, user_angle, user_throttle, pilot_angle, pilot_throttle) ==
    IF mode = Some("user")
    THEN <<user_angle, user_throttle>>
    ELSE <<pilot_angle, pilot_throttle>>

\* DriveMode.run
DriveMode_run(mode, user_angle, user_throttle, pilot_angle, pilot_throttle) ==
    IF mode = Some("user")
    THEN <<user_angle, user_throttle>>
    ELSE IF mode = Some("local_angle")
         THEN <<pilot_angle, user_throttle>>
         ELSE <<pilot_angle, pilot_throttle>>

\* mutant: the frame counter starts at 1
OdomRemoteAdapter_init_frame1 ==
    [frame |-> 1, running |-> TRUE, odom_vel_ms |-> <<0, 0, 0>>,
     pos |-> <<Num(0), Num(0)>>]

\* OdomRemoteAdapter.__init__
OdomRemoteAdapter_init ==
    [frame |-> 0, running |-> TRUE, odom_vel_ms |-> <<0, 0, 0>>,
     pos |-> <<Num(0), Num(0)>>]

(***************************************************************************)
(* The command line, lines 339-342.                                        *)
(***************************************************************************)
\* str.upper on the option values of the model
upper(str) ==
    CASE str = "debug" -> "DEBUG"
      [] str = "bogus" -> "BOGUS"
      [] str = "basic_format" -> "BASIC_FORMAT"
      [] OTHER -> str
\* getattr(logging, name, None): the upper-case attributes of the logging
\* module are its levels, which are ints, and BASIC_FORMAT, a string.
logging_getattr(name) ==
    CASE name = "CRITICAL" -> [type |-> "int", value |-> 50]
      [] name = "FATAL" -> [type |-> "int", value |-> 50]
      [] name = "ERROR" -> [type |-> "int", value |-> 40]
      [] name = "WARNING" -> [type |-> "int", value |-> 30]
      [] name = "WARN" -> [type |-> "int", value |-> 30]
      [] name = "INFO" -> [type |-> "int", value |-> 20]
      [] name = "DEBUG" -> [type |-> "int", value |-> 10]
      [] name = "NOTSET" -> [type |-> "int", value |-> 0]
      [] name = "BASIC_FORMAT" -> [type |-> "str", value |-> 0]
      [] OTHER -> [type |-> "NoneType", value |-> 0]
\* line 339: args['--log'] or "INFO"; line 340: the level looked up
numeric_level(opt) == logging_getattr(upper(IF opt = None THEN "INFO" ELSE opt[1]))

(***************************************************************************)
(* Configuration read by drive(cfg).                                       *)
(***************************************************************************)
PID_P == 2            \* cfg.PID_P, in units of 0.5
PID_I == 2            \* cfg.PID_I, in units of 0.5
PID_D == 2            \* cfg.PID_D, in units of 0.5
PID_THROTTLE == 5     \* cfg.PID_THROTTLE
PID_D_STEP == 1       \* the step of dec_pid_d / inc_pid_d: 0.5

\* No evaluation of the PID law is in progress.
EvNone == [pc |-> "none", out |-> 0, Kd |-> 0, d |-> 0]

\* mutant: one tick more than configured
max_loop_count_plus == MAX_LOOPS + 1

\* The max_loop_count argument of V.start.
max_loop_count == MAX_LOOPS

(***************************************************************************)
(* Initial state: drive(cfg) has constructed and registered the parts and  *)
(* is about to call V.start.                                               *)
(***************************************************************************)
Constructed(s, maxLoops) ==
    /\ strategy = s
    /\ MAX_LOOPS \in 1..maxLoops
    /\ idx = 0
    /\ loop_count = 0
    /\ cause = "none"
    /\ mem = [k \in Keys |-> None]
    /\ writer = [k \in Keys |-> ""]
    /\ wtick = [k \in Keys |-> 0]
    /\ ran = <<>>
    /\ ticksDone = 0
    /\ threads = [n \in PartNames |-> 0]
    /\ shutdownLog = <<>>
    /\ trip = Trip_init
    /\ odom = OdomRemoteAdapter_init
    /\ upc = "idle"
    /\ rt = [pc |-> "none", x |-> Num(0)]
    /\ sd = FALSE
    /\ sock = [req |-> None, rep |-> None]
    /\ sent = <<>>
    /\ nrecv = 0
    /\ t265 = [proc |-> (strategy = "remote"), deleted |-> FALSE]
    /\ origin = [ox |-> Num(0), oy |-> Num(0), last_x |-> Num(0), last_y |-> Num(0)]
    /\ path = <<>>
    /\ pid = [Kd |-> PID_D, integral |-> 0, prev_err |-> 0, prev_tm |-> 0]
    /\ ev = EvNone
    /\ buttons = 0

\* The log level is valid (no option: INFO), the rate is the template's 20 Hz
\* and the wheelbase is the one of line 191.
InitWith(s, maxLoops) ==
    /\ Constructed(s, maxLoops)
    /\ log_level = None
    /\ DRIVE_LOOP_HZ = 20
    /\ kin = CarKinematics_init
    /\ phase = "init"

\* The file as it stands: USE_KINEMATIC_MODEL = True.
Init == InitWith("kinematic", MaxLoops)
\* Built with USE_KINEMATIC_MODEL = False and ODOM_PLUS_RS_T265 = True.
RemoteInit == InitWith("remote", MaxRemoteLoops)
\* The program is started with any log option, rate and wheelbase.
CfgInit ==
    /\ Constructed("kinematic", 1)
    /\ log_level \in LogOptions
    /\ DRIVE_LOOP_HZ \in Rates
    /\ \E l \in Wheelbases : kin = CarKinematics_new(Num(0), Num(0), Ang(0, 0, 0), l)
    /\ phase = "main"

cfgVars == <<strategy, MAX_LOOPS, log_level, DRIVE_LOOP_HZ>>
loopVars == <<phase, idx, loop_count, cause, ticksDone>>
memVars == <<mem, writer, wtick>>
odomVars == <<odom, upc, rt, sd, sock, sent, nrecv>>
kinVars == <<kin, trip>>
pidVars == <<pid, ev>>
partVars == <<kinVars, t265, origin, path, pidVars>>

(***************************************************************************)
(* The drive loop, V.start (donkeycar.vehicle.Vehicle).                    *)
(***************************************************************************)
IsThreaded(n) == \E i \in 1..NParts : Parts[i].name = n /\ Parts[i].threaded

\* lines 339-343 and 346-347: the log level is checked, then drive is called.
Main ==
    /\ phase = "main"
    /\ phase' = IF numeric_level(log_level).type = "int" THEN "init" ELSE "failed"
    /\ UNCHANGED <<cfgVars, idx, loop_count, cause, ticksDone, memVars, ran, threads,
                   shutdownLog, odomVars, partVars, buttons>>

\* V.start refuses a tick rate that is not positive.
Vehicle_start_invalid_rate ==
    /\ phase = "init"
    /\ DRIVE_LOOP_HZ <= 0
    /\ phase' = "failed"
    /\ UNCHANGED <<cfgVars, idx, loop_count, cause, ticksDone, memVars, ran, threads,
                   shutdownLog, odomVars, partVars, buttons>>

\* V.start launches the background loop of every threaded part.
Vehicle_start ==
    /\ phase = "init"
    /\ DRIVE_LOOP_HZ > 0
    /\ phase' = "run"
    /\ threads' = [n \in PartNames |-> IF IsThreaded(n) THEN threads[n] + 1
                                       ELSE threads[n]]
    /\ upc' = IF IsThreaded("odom") THEN "check" ELSE upc
    /\ UNCHANGED <<cfgVars, idx, loop_count, cause, ticksDone, memVars, ran,
                   shutdownLog, odom, rt, sd, sock, sent, nrecv, partVars, buttons>>

\* A tick begins.
TickBegin ==
    /\ phase = "run" /\ idx = 0
    /\ loop_count' = loop_count + 1
    /\ idx' = 1
    /\ ran' = <<>>
    /\ UNCHANGED <<cfgVars, phase, cause, ticksDone, memVars, threads, shutdownLog,
                   odomVars, partVars, buttons>>

\* The loop ends: the shutdown hooks follow, last registered part first.
EndLoop(why) ==
    /\ phase' = "stop"
    /\ idx' = NParts
    /\ cause' = why

\* A tick ends; the loop ends with it once max_loop_count ticks have run.
TickEnd ==
    /\ phase = "run" /\ idx = NParts + 1
    /\ ticksDone' = ticksDone + 1
    /\ IF loop_count >= max_loop_count
       THEN EndLoop("max")
       ELSE idx' = 0 /\ UNCHANGED <<phase, cause>>
    /\ UNCHANGED <<cfgVars, loop_count, memVars, ran, threads, shutdownLog,
                   odomVars, partVars, buttons>>

\* A stop signal is observed between two ticks.
StopSignal ==
    /\ phase = "run" /\ idx = 0
    /\ EndLoop("signal")
    /\ UNCHANGED <<cfgVars, loop_count, ticksDone, memVars, ran, threads,
                   shutdownLog, odomVars, partVars, buttons>>

\* The part in turn, and whether its run_condition lets it run.
Turn == phase = "run" /\ idx \in 1..NParts /\ rt.pc = "none" /\ ev.pc = "none"
Enabled(p) == IF p.run_condition = "" THEN TRUE ELSE mem[p.run_condition] = Some(TRUE)
HasMethod(p) == IF p.threaded THEN HasRunThreaded(p.name) ELSE HasRun(p.name)
Ready(n) ==
    /\ Turn
    /\ Parts[idx].name = n
    /\ Enabled(Parts[idx])
    /\ HasMethod(Parts[idx])

\* A part whose run_condition is false is skipped.
SkipPart ==
    /\ Turn
    /\ ~Enabled(Parts[idx])
    /\ idx' = idx + 1
    /\ UNCHANGED <<cfgVars, phase, loop_count, cause, ticksDone, memVars, ran,
                   threads, shutdownLog, odomVars, partVars, buttons>>

\* The outputs a part returned are written to its output keys, in order.
Written(p, k) == \E i \in 1..Len(p.outputs) : p.outputs[i] = k
Put(p, outs) ==
    /\ mem' = [k \in Keys |->
                 IF Written(p, k)
                 THEN outs[CHOOSE i \in 1..Len(p.outputs) : p.outputs[i] = k]
                 ELSE mem[k]]
    /\ writer' = [k \in Keys |-> IF Written(p, k) THEN p.name ELSE writer[k]]
    /\ wtick' = [k \in Keys |-> IF Written(p, k) THEN loop_count ELSE wtick[k]]

\* The inputs of the part in turn, read from the blackboard.
In(i) == mem[Parts[idx].inputs[i]]

\* The part in turn was called and returned outs.
Returned(outs) ==
    /\ Put(Parts[idx], outs)
    /\ ran' = Append(ran, Parts[idx].name)
    /\ idx' = idx + 1
    /\ UNCHANGED <<cfgVars, phase, loop_count, cause, ticksDone, threads,
                   shutdownLog, buttons>>

\* mutant: the failure of a part is noted and the tick goes on
Raise_isolated ==
    /\ Turn
    /\ Enabled(Parts[idx])
    /\ Parts[idx].name \in RaisingParts \/ ~HasMethod(Parts[idx])
    /\ ran' = Append(ran, Parts[idx].name)
    /\ idx' = idx + 1
    /\ cause' = "raise"
    /\ UNCHANGED <<cfgVars, phase, loop_count, ticksDone, memVars, threads,
                   shutdownLog, odomVars, partVars, buttons>>

\* The part in turn raises: an imported part may (those of RaisingParts do
\* here), and so does the call of a method the part does not have.
Raise ==
    /\ Turn
    /\ Enabled(Parts[idx])
    /\ Parts[idx].name \in RaisingParts \/ ~HasMethod(Parts[idx])
    /\ ran' = Append(ran, Parts[idx].name)
    /\ EndLoop("raise")
    /\ UNCHANGED <<cfgVars, loop_count, ticksDone, memVars, threads, shutdownLog,
                   odomVars, partVars, buttons>>

(***************************************************************************)
(* The parts, as the drive loop calls them.                                *)
(***************************************************************************)
\* RotaryEncoder.run_threaded: the distance, velocity and distance increment
\* its polling thread cached last.
Run_enc ==
    /\ Ready("enc")
    /\ \E r \in EncReadings : Returned(<<Some(r), Some(r), Some(r)>>)
    /\ UNCHANGED <<odomVars, partVars>>

\* JoystickController.run_threaded: the controller's latest angle, throttle,
\* mode and recording flag.
Run_ctr ==
    /\ Ready("ctr")
    /\ \E u \in UserInputs, m \in Modes :
          Returned(<<Some(u[1]), Some(u[2]), Some(m), Some(FALSE)>>)
    /\ UNCHANGED <<odomVars, partVars>>

Run_steer_to_rad ==
    /\ Ready("steer_to_rad")
    /\ Returned(Some(Some(Steer_to_rad_run(In(1)[1]))))
    /\ UNCHANGED <<odomVars, partVars>>

Run_carKine ==
    /\ Ready("carKine")
    /\ ~CarKinematics_run_raises(kin)
    /\ kin' = CarKinematics_run(kin, In(1)[1], In(2)[1])
    /\ trip' = Trip_after(trip, In(1)[1], In(2)[1])
    /\ Returned(<<Some(kin'.x), Some(kin'.y)>>)
    /\ UNCHANGED <<odomVars, t265, origin, path, pidVars>>

\* CarKinematics.run raises in the drive loop.
Run_carKine_raises ==
    /\ Ready("carKine")
    /\ CarKinematics_run_raises(kin)
    /\ ran' = Append(ran, "carKine")
    /\ EndLoop("raise")
    /\ UNCHANGED <<cfgVars, loop_count, ticksDone, memVars, threads, shutdownLog,
                   odomVars, partVars, buttons>>

\* CarKinematics.run on the localizer alone, outside the drive loop.
CarKinematics_update ==
    /\ phase = "init"
    /\ trip.n < MaxUpdates
    /\ ~CarKinematics_run_raises(kin)
    /\ \E dist_m \in Increments, steering_angle_radians \in SteeringAngles :
          /\ kin' = CarKinematics_run(kin, dist_m, steering_angle_radians)
          /\ trip' = Trip_after(trip, dist_m, steering_angle_radians)
    /\ UNCHANGED <<cfgVars, loopVars, memVars, ran, threads, shutdownLog, odomVars,
                   t265, origin, path, pidVars, buttons>>

\* T265Server.run: pass.  It returns None, so nothing is written.
Run_t265 ==
    /\ Ready("t265")
    /\ Returned(<<>>)
    /\ UNCHANGED <<odomVars, partVars>>

\* OdomRemoteAdapter.run_threaded, line 81: self.odom_vel_ms = odom_vel_ms
OdomRemoteAdapter_run_threaded ==
    /\ Ready("odom")
    /\ odom' = [odom EXCEPT !.odom_vel_ms = In(1)[1]]
    /\ rt' = [rt EXCEPT !.pc = "read0"]
    /\ UNCHANGED <<cfgVars, loopVars, memVars, ran, threads, shutdownLog, upc, sd,
                   sock, sent, nrecv, partVars, buttons>>

\* line 82, first operand: self.pos[0]
OdomRemoteAdapter_read0 ==
    /\ phase = "run" /\ rt.pc = "read0"
    /\ rt' = [pc |-> "read1", x |-> odom.pos[1]]
    /\ UNCHANGED <<cfgVars, loopVars, memVars, ran, threads, shutdownLog, odom, upc,
                   sd, sock, sent, nrecv, partVars, buttons>>

\* line 82, second operand and return: self.pos[1]
OdomRemoteAdapter_read1 ==
    /\ phase = "run" /\ rt.pc = "read1"
    /\ rt' = [pc |-> "none", x |-> Num(0)]
    /\ Returned(<<Some(rt.x), Some(odom.pos[2])>>)
    /\ UNCHANGED <<odom, upc, sd, sock, sent, nrecv, partVars>>

\* OriginOffset.run: remembers the position and returns it shifted.
Run_origin_reset ==
    /\ Ready("origin_reset")
    /\ origin' = [origin EXCEPT !.last_x = In(1)[1], !.last_y = In(2)[1]]
    /\ Returned(<<Some(Add(In(1)[1], origin.ox)), Some(Add(In(2)[1], origin.oy))>>)
    /\ UNCHANGED <<odomVars, kinVars, t265, path, pidVars>>

Run_UserCondition ==
    /\ Ready("UserCondition")
    /\ Returned(Some(Some(UserCondition_run(In(1)))))
    /\ UNCHANGED <<odomVars, partVars>>

Run_PilotCondition ==
    /\ Ready("PilotCondition")
    /\ Returned(Some(Some(PilotCondition_run(In(1)))))
    /\ UNCHANGED <<odomVars, partVars>>

\* Path.run: records the position when the car has moved, returns the path.
Run_path ==
    /\ Ready("path")
    /\ path' = IF path # <<>> /\ path[Len(path)] = <<In(1)[1], In(2)[1]>>
               THEN path
               ELSE Append(path, <<In(1)[1], In(2)[1]>>)
    /\ Returned(Some(Some(path')))
    /\ UNCHANGED <<odomVars, kinVars, t265, origin, pidVars>>

\* PImage.run: a cleared image (an image is the set of layers drawn on it).
Run_img ==
    /\ Ready("img")
    /\ Returned(Some(Some({})))
    /\ UNCHANGED <<odomVars, partVars>>

\* PathPlot.run: draws the path on the image.
Run_plot ==
    /\ Ready("plot")
    /\ Returned(Some(Some(In(1)[1] \cup {"path"})))
    /\ UNCHANGED <<odomVars, partVars>>

\* CTE.run: the cross-track error of the position against the path: 0 on a
\* recorded point, 1 off the path.
CTE_run(pth, x, y) ==
    IF pth # None /\ \E i \in 1..Len(pth[1]) : pth[1][i] = <<x[1], y[1]>>
    THEN 0
    ELSE 1

Run_cte ==
    /\ Ready("cte")
    /\ Returned(Some(Some(CTE_run(In(1), In(2), In(3)))))
    /\ UNCHANGED <<odomVars, partVars>>

\* PIDController.run: Kp * e + Ki * integral + Kd * de/dt, dt one tick.
PIDController_run(s, err) ==
    LET i == s.integral + err
    IN  [out |-> PID_P * err + PID_I * i + s.Kd * (err - s.prev_err),
         st |-> [s EXCEPT !.integral = i, !.prev_err = err, !.prev_tm = loop_count]]

\* PID_Pilot.run is called: PIDController.run evaluates the law on the error,
\* with the gains as they are now.
PID_Pilot_run ==
    /\ Ready("pilot")
    /\ pid' = PIDController_run(pid, In(1)[1]).st
    /\ ev' = [pc |-> "busy", out |-> PIDController_run(pid, In(1)[1]).out,
              Kd |-> pid.Kd, d |-> In(1)[1] - pid.prev_err]
    /\ UNCHANGED <<cfgVars, loopVars, memVars, ran, threads, shutdownLog, odomVars,
                   kinVars, t265, origin, path, buttons>>

\* mutant: the derivative term is taken with the gain as it is on return
PID_Pilot_return_late ==
    /\ phase = "run" /\ ev.pc = "busy"
    /\ ev' = EvNone
    /\ Returned(<<Some(ev.out + (pid.Kd - ev.Kd) * ev.d), Some(PID_THROTTLE)>>)
    /\ UNCHANGED <<odomVars, kinVars, t265, origin, path, pid>>

\* PID_Pilot.run returns the steering and the configured throttle.
PID_Pilot_return ==
    /\ phase = "run" /\ ev.pc = "busy"
    /\ ev' = EvNone
    /\ Returned(<<Some(ev.out), Some(PID_THROTTLE)>>)
    /\ UNCHANGED <<odomVars, kinVars, t265, origin, path, pid>>

\* PlotCircle.run: draws the position on the image.
Run_loc_plot ==
    /\ Ready("loc_plot")
    /\ Returned(Some(Some(In(1)[1] \cup {"loc"})))
    /\ UNCHANGED <<odomVars, partVars>>

\* LocalWebController.run_threaded: the web page's controls, left untouched.
Run_web_ctr ==
    /\ Ready("web_ctr")
    /\ Returned(<<Some(0), Some(0), Some("user"), Some(FALSE)>>)
    /\ UNCHANGED <<odomVars, partVars>>

Run_DriveMode ==
    /\ Ready("DriveMode")
    /\ Returned(DriveMode_run(In(1), In(2), In(3), In(4), In(5)))
    /\ UNCHANGED <<odomVars, partVars>>

\* PWMSteering.run / PWMThrottle.run: drive the actuator, return nothing.
Run_actuator ==
    /\ Ready("steering") \/ Ready("throttle")
    /\ Returned(<<>>)
    /\ UNCHANGED <<odomVars, partVars>>

(***************************************************************************)
(* OdomRemoteAdapter.update, on its own thread, and the remote process.    *)
(***************************************************************************)
\* The requests update may have sent: MaxFrames while the flag is set, and
\* room for one more once it is cleared.
FrameBound == IF odom.running THEN MaxFrames ELSE MaxFrames + 1

\* mutant: the loop goes on whatever the flag says
OdomRemoteAdapter_update_check_forever ==
    /\ upc = "check"
    /\ upc' = "send"
    /\ UNCHANGED <<cfgVars, loopVars, memVars, ran, threads, shutdownLog, odom, rt,
                   sd, sock, sent, nrecv, partVars, buttons>>

\* line 72: while self.running
OdomRemoteAdapter_update_check ==
    /\ upc = "check"
    /\ upc' = IF odom.running THEN "send" ELSE "exit"
    /\ UNCHANGED <<cfgVars, loopVars, memVars, ran, threads, shutdownLog, odom, rt,
                   sd, sock, sent, nrecv, partVars, buttons>>

\* mutant: sending a request drops the cached pose
OdomRemoteAdapter_update_send_clears ==
    /\ upc = "send"
    /\ Len(sent) < FrameBound
    /\ odom' = [odom EXCEPT !.frame = odom.frame + 1, !.pos = <<Num(0), Num(0)>>]
    /\ sock' = [sock EXCEPT !.req = Some([frame |-> odom'.frame,
                                          vel_z |-> odom.odom_vel_ms])]
    /\ sent' = Append(sent, odom'.frame)
    /\ upc' = "recv"
    /\ UNCHANGED <<cfgVars, loopVars, memVars, ran, threads, shutdownLog, rt, sd,
                   nrecv, partVars, buttons>>

\* lines 73-75: the frame counter is incremented and the request is sent
OdomRemoteAdapter_update_send ==
    /\ upc = "send"
    /\ Len(sent) < FrameBound
    /\ odom' = [odom EXCEPT !.frame = odom.frame + 1]
    /\ sock' = [sock EXCEPT !.req = Some([frame |-> odom'.frame,
                                          vel_z |-> odom.odom_vel_ms])]
    /\ sent' = Append(sent, odom'.frame)
    /\ upc' = "recv"
    /\ UNCHANGED <<cfgVars, loopVars, memVars, ran, threads, shutdownLog, rt, sd,
                   nrecv, partVars, buttons>>

\* The remote process, while it lives, answers the request with a position;
\* for carries the frame of the request answered.
ServerReply ==
    /\ sock.req # None
    /\ t265.proc
    /\ \E p \in PoseReplies :
          sock' = [req |-> None,
                   rep |-> Some([x |-> p[1], z |-> p[2], for |-> sock.req[1].frame])]
    /\ UNCHANGED <<cfgVars, loopVars, memVars, ran, threads, shutdownLog, odom, upc,
                   rt, sd, sent, nrecv, partVars, buttons>>

\* mutant: recv gives up when no reply is there, and the loop goes on
OdomRemoteAdapter_update_recv_timeout ==
    /\ upc = "recv"
    /\ IF sock.rep # None
       THEN /\ odom' = [odom EXCEPT !.pos = <<Num(sock.rep[1].x), Num(sock.rep[1].z)>>]
            /\ sock' = [sock EXCEPT !.rep = None]
            /\ nrecv' = nrecv + 1
       ELSE UNCHANGED <<odom, sock, nrecv>>
    /\ upc' = "check"
    /\ UNCHANGED <<cfgVars, loopVars, memVars, ran, threads, shutdownLog, rt, sd,
                   sent, partVars, buttons>>

\* lines 76-78: recv blocks until the reply is there; its x and z are cached
OdomRemoteAdapter_update_recv ==
    /\ upc = "recv"
    /\ sock.rep # None
    /\ odom' = [odom EXCEPT !.pos = <<Num(sock.rep[1].x), Num(sock.rep[1].z)>>]
    /\ sock' = [sock EXCEPT !.rep = None]
    /\ nrecv' = nrecv + 1
    /\ upc' = "check"
    /\ UNCHANGED <<cfgVars, loopVars, memVars, ran, threads, shutdownLog, rt, sd,
                   sent, partVars, buttons>>

(***************************************************************************)
(* Button-down triggers, fired from the controller's thread.               *)
(***************************************************************************)
ControllerLive ==
    /\ threads["ctr"] > 0
    /\ \A i \in 1..Len(shutdownLog) : shutdownLog[i] # "ctr"
    /\ buttons < MaxButtons

\* OriginOffset.init_to_last
init_to_last ==
    /\ ControllerLive
    /\ origin' = [origin EXCEPT !.ox = Neg(origin.last_x), !.oy = Neg(origin.last_y)]
    /\ buttons' = buttons + 1
    /\ UNCHANGED <<cfgVars, loopVars, memVars, ran, threads, shutdownLog, odomVars,
                   kinVars, t265, path, pidVars>>

\* mutant: the button also clears the accumulated integral
dec_pid_d_reset ==
    /\ ControllerLive
    /\ pid' = [pid EXCEPT !.Kd = pid.Kd - PID_D_STEP, !.integral = 0]
    /\ buttons' = buttons + 1
    /\ UNCHANGED <<cfgVars, loopVars, memVars, ran, threads, shutdownLog, odomVars,
                   kinVars, t265, origin, path, ev>>

\* dec_pid_d: pid.Kd -= 0.5
dec_pid_d ==
    /\ ControllerLive
    /\ pid' = [pid EXCEPT !.Kd = pid.Kd - PID_D_STEP]
    /\ buttons' = buttons + 1
    /\ UNCHANGED <<cfgVars, loopVars, memVars, ran, threads, shutdownLog, odomVars,
                   kinVars, t265, origin, path, ev>>

\* inc_pid_d: pid.Kd += 0.5
inc_pid_d ==
    /\ ControllerLive
    /\ pid' = [pid EXCEPT !.Kd = pid.Kd + PID_D_STEP]
    /\ buttons' = buttons + 1
    /\ UNCHANGED <<cfgVars, loopVars, memVars, ran, threads, shutdownLog, odomVars,
                   kinVars, t265, origin, path, ev>>

(***************************************************************************)
(* Shutdown: the hooks of the registered parts, last registered first.     *)
(***************************************************************************)
Stopping(n) == phase = "stop" /\ idx \in 1..NParts /\ ~sd /\ Parts[idx].name = n

\* A part without a shutdown method has no hook.
ShutdownNone ==
    /\ phase = "stop" /\ idx \in 1..NParts /\ ~sd
    /\ ~HasShutdown(Parts[idx].name)
    /\ idx' = idx - 1
    /\ UNCHANGED <<cfgVars, phase, loop_count, cause, ticksDone, memVars, ran,
                   threads, shutdownLog, odomVars, partVars, buttons>>

\* The hook of an imported part.
ShutdownPart ==
    /\ phase = "stop" /\ idx \in 1..NParts /\ ~sd
    /\ HasShutdown(Parts[idx].name)
    /\ Parts[idx].name \notin LocalParts
    /\ shutdownLog' = Append(shutdownLog, Parts[idx].name)
    /\ idx' = idx - 1
    /\ UNCHANGED <<cfgVars, phase, loop_count, cause, ticksDone, memVars, ran,
                   threads, odomVars, partVars, buttons>>

\* T265Server.shutdown
T265Server_shutdown ==
    /\ Stopping("t265")
    /\ t265' = [t265 EXCEPT !.proc = FALSE]
    /\ shutdownLog' = Append(shutdownLog, "t265")
    /\ idx' = idx - 1
    /\ UNCHANGED <<cfgVars, phase, loop_count, cause, ticksDone, memVars, ran,
                   threads, odomVars, kinVars, origin, path, pidVars,
                   buttons>>

\* T265Server.__del__, once drive has returned
T265Server_del ==
    /\ phase = "done"
    /\ strategy = "remote"
    /\ ~t265.deleted
    /\ t265' = [proc |-> FALSE, deleted |-> TRUE]
    /\ UNCHANGED <<cfgVars, loopVars, memVars, ran, threads, shutdownLog, odomVars,
                   kinVars, origin, path, pidVars, buttons>>

\* OdomRemoteAdapter.shutdown, line 85: self.running = False
OdomRemoteAdapter_shutdown ==
    /\ Stopping("odom")
    /\ odom' = [odom EXCEPT !.running = FALSE]
    /\ sd' = TRUE
    /\ shutdownLog' = Append(shutdownLog, "odom")
    /\ UNCHANGED <<cfgVars, loopVars, memVars, ran, threads, upc, rt, sock, sent,
                   nrecv, partVars, buttons>>

\* mutant: shutdown joins the background loop before it returns
OdomRemoteAdapter_shutdown_return_join ==
    /\ phase = "stop" /\ sd
    /\ upc = "exit"
    /\ sd' = FALSE
    /\ idx' = idx - 1
    /\ UNCHANGED <<cfgVars, phase, loop_count, cause, ticksDone, memVars, ran,
                   threads, shutdownLog, odom, upc, rt, sock, sent, nrecv, partVars,
                   buttons>>

\* line 86: time.sleep(1.0) is over and shutdown returns
OdomRemoteAdapter_shutdown_return ==
    /\ phase = "stop" /\ sd
    /\ sd' = FALSE
    /\ idx' = idx - 1
    /\ UNCHANGED <<cfgVars, phase, loop_count, cause, ticksDone, memVars, ran,
                   threads, shutdownLog, odom, upc, rt, sock, sent, nrecv, partVars,
                   buttons>>

\* All hooks ran: V.start returns.
Vehicle_return ==
    /\ phase = "stop" /\ idx = 0
    /\ phase' = "done"
    /\ UNCHANGED <<cfgVars, idx, loop_count, cause, ticksDone, memVars, ran, threads,
                   shutdownLog, odomVars, partVars, buttons>>

\* The drive loop and the parts every build registers.
Common ==
    \/ Vehicle_start
    \/ TickBegin
    \/ TickEnd
    \/ StopSignal
    \/ SkipPart
    \/ Raise
    \/ Run_enc
    \/ Run_ctr
    \/ Run_origin_reset
    \/ Run_UserCondition
    \/ Run_PilotCondition
    \/ Run_path
    \/ Run_img
    \/ Run_plot
    \/ Run_cte
    \/ PID_Pilot_run
    \/ PID_Pilot_return
    \/ Run_loc_plot
    \/ Run_web_ctr
    \/ Run_DriveMode
    \/ Run_actuator
    \/ ShutdownNone
    \/ ShutdownPart
    \/ Vehicle_return

Next ==
    \/ Common
    \/ Run_steer_to_rad
    \/ Run_carKine
    \/ init_to_last

RemoteNext ==
    \/ Common
    \/ Run_t265
    \/ OdomRemoteAdapter_run_threaded
    \/ OdomRemoteAdapter_read0
    \/ OdomRemoteAdapter_read1
    \/ OdomRemoteAdapter_update_check
    \/ OdomRemoteAdapter_update_send
    \/ ServerReply
    \/ OdomRemoteAdapter_update_recv
    \/ T265Server_shutdown
    \/ T265Server_del
    \/ OdomRemoteAdapter_shutdown
    \/ OdomRemoteAdapter_shutdown_return

\* The localizer alone.
KinNext == CarKinematics_update

\* The program from its command line on, with any configuration.
CfgNext ==
    \/ Next
    \/ Main
    \/ Vehicle_start_invalid_rate
    \/ Run_carKine_raises

\* The build of Next, with the buttons that tune the derivative gain.
PidNext ==
    \/ Common
    \/ Run_steer_to_rad
    \/ Run_carKine
    \/ dec_pid_d
    \/ inc_pid_d

Spec == Init /\ [][Next]_vars
KinSpec == Init /\ [][KinNext]_vars
PidSpec == Init /\ [][PidNext]_vars
CfgSpec == CfgInit /\ [][CfgNext]_vars
RemoteSpec == RemoteInit /\ [][RemoteNext]_vars
\* update runs on a thread of its own, which the platform keeps scheduling:
\* a step of the loop that stays possible is taken.
FairRemoteSpec ==
    /\ RemoteSpec
    /\ WF_vars(OdomRemoteAdapter_update_check)
    /\ WF_vars(OdomRemoteAdapter_update_send)
    /\ WF_vars(OdomRemoteAdapter_update_recv)

(***************************************************************************)
(* Properties.                                                             *)
(***************************************************************************)
Last(q) == q[Len(q)]
InRan(n) == \E i \in 1..Len(ran) : ran[i] = n
\* The drive loop is in a tick and past the slot of part n.
Past(n) == phase = "run" /\ idx > IdxOf(n) /\ rt.pc = "none"
ArbValues == {None, Some(0), Some(1), Some(PID_THROTTLE)}

\* C1: DriveMode.run returns (user_angle, user_throttle) in mode user,
\* (pilot_angle, user_throttle) in mode local_angle and (pilot_angle,
\* pilot_throttle) in mode local, for all inputs; in mode user the result is
\* the same whatever the pilot values are; and what the drive loop writes to
\* 'angle' and 'throttle' in a tick is that result for the tick's inputs.
C1_DriveMode ==
    /\ phase = "init" =>    \* about the operator alone: one state decides it
          \A ua \in ArbValues, ut \in ArbValues, pa \in ArbValues, pt \in ArbValues :
             /\ DriveMode_run(Some("user"), ua, ut, pa, pt) = <<ua, ut>>
             /\ DriveMode_run(Some("local_angle"), ua, ut, pa, pt) = <<pa, ut>>
             /\ DriveMode_run(Some("local"), ua, ut, pa, pt) = <<pa, pt>>
             /\ DriveMode_run(Some("user"), ua, ut, pa, pt)
                   = DriveMode_run(Some("user"), ua, ut, None, None)
    /\ Past("DriveMode") =>
          /\ InRan("DriveMode")
          /\ mem["user/mode"] = Some("user") =>
                /\ mem["angle"] = mem["user/angle"]
                /\ mem["throttle"] = mem["user/throttle"]
          /\ mem["user/mode"] = Some("local_angle") =>
                /\ mem["angle"] = mem["pilot/angle"]
                /\ mem["throttle"] = mem["user/throttle"]
          /\ mem["user/mode"] = Some("local") =>
                /\ mem["angle"] = mem["pilot/angle"]
                /\ mem["throttle"] = mem["pilot/throttle"]

\* C1 witness: the arbiter ran in mode user while the blackboard held pilot
\* values, left by an earlier tick, that differ from the user's.
C1_Witness ==
    /\ Past("DriveMode")
    /\ mem["user/mode"] = Some("user")
    /\ mem["pilot/angle"] # None
    /\ mem["pilot/angle"] # mem["user/angle"]
    /\ mem["angle"] = mem["user/angle"]

\* C2: a loop that ends because max_loop_count was reached has carried out
\* exactly cfg.MAX_LOOPS ticks, and the loop never carries out more; once
\* that many ticks are done no part is called any more.
C2_ExactlyMaxTicks ==
    /\ ticksDone <= MAX_LOOPS
    /\ loop_count <= MAX_LOOPS
    /\ cause = "max" => ticksDone = MAX_LOOPS /\ loop_count = MAX_LOOPS
    /\ ticksDone = MAX_LOOPS => phase \in {"stop", "done"} /\ cause = "max"
    /\ phase = "done" /\ cause = "max" => ticksDone = MAX_LOOPS

\* C2 witness: V.start returned after cfg.MAX_LOOPS = 2 ticks.
C2_Witness ==
    phase = "done" /\ cause = "max" /\ MAX_LOOPS = 2 /\ ticksDone = 2

\* C3: while run_pilot is false, the slots of the CTE and pilot parts leave
\* 'cte/error', 'pilot/angle' and 'pilot/throttle' as they are and call no
\* part; and whenever the run_condition of the part in turn is false, the
\* step leaves every output key of that part as it is and calls no part.
C3_DisabledKeepsOutputs ==
    [][/\ (/\ phase = "run" /\ idx \in 1..NParts
           /\ Parts[idx].name \in {"cte", "pilot"}
           /\ mem["run_pilot"] = Some(FALSE))
          => /\ mem'["cte/error"] = mem["cte/error"]
             /\ mem'["pilot/angle"] = mem["pilot/angle"]
             /\ mem'["pilot/throttle"] = mem["pilot/throttle"]
             /\ ran' = ran
       /\ (/\ phase = "run" /\ idx \in 1..NParts
           /\ Parts[idx].name = "path"
           /\ mem["run_user"] = Some(FALSE))
          => /\ mem'["path"] = mem["path"]
             /\ ran' = ran
       /\ (Turn /\ ~Enabled(Parts[idx]))
          => /\ \A k \in Keys : Written(Parts[idx], k) => mem'[k] = mem[k]
             /\ ran' = ran
      ]_vars

\* C3 witness: the pilot was skipped in this tick and the blackboard still
\* holds the steering it computed in an earlier tick.
C3_Witness ==
    /\ phase = "run" /\ idx = IdxOf("pilot") + 1
    /\ mem["run_pilot"] = Some(FALSE)
    /\ ~InRan("pilot") /\ ~InRan("cte")
    /\ mem["pilot/angle"] # None
    /\ wtick["pilot/angle"] < loop_count

\* The parts called so far in the tick were called in registration order,
\* each at most once, and a key holds this tick's value exactly if one of
\* them writes it: the value of the last of them that does.
Max(S) == CHOOSE m \in S : \A i \in S : i <= m
InOrder ==
    LET ps == Parts
        at == [i \in 1..Len(ran) |-> CHOOSE j \in 1..Len(ps) : ps[j].name = ran[i]]
        WritersOf(k) == {i \in 1..Len(ran) : Written(ps[at[i]], k)}
    IN  /\ \A i \in 1..(Len(ran) - 1) : at[i] < at[i + 1]
        /\ (phase = "run" /\ idx >= 1) =>
              /\ ran # <<>> => at[Len(ran)] < idx
              /\ \A k \in Keys :
                    IF WritersOf(k) # {}
                    THEN /\ wtick[k] = loop_count
                         /\ writer[k] = ran[Max(WritersOf(k))]
                    ELSE wtick[k] < loop_count

\* The localizer of the build.
Localizer == IF strategy = "remote" THEN "odom" ELSE "carKine"
FromThisTick(k, n) == writer[k] = n /\ wtick[k] = loop_count

\* C4, as claimed: parts run in registration order on the freshest values,
\* and OriginOffset and CTE both read the 'pos/x', 'pos/y' the localizer
\* wrote in the same tick.
C4_AsClaimed ==
    /\ InOrder
    /\ Ready("origin_reset") =>
          FromThisTick("pos/x", Localizer) /\ FromThisTick("pos/y", Localizer)
    /\ Ready("cte") =>
          FromThisTick("pos/x", Localizer) /\ FromThisTick("pos/y", Localizer)

\* C4, amended: parts run in registration order on the freshest values;
\* OriginOffset reads the 'pos/x', 'pos/y' the localizer wrote in the same
\* tick (the pose CarKinematics holds), and CTE reads the 'pos/x', 'pos/y'
\* OriginOffset wrote in the same tick (the localizer's shifted by the
\* origin offset) and the path Path wrote last.
C4_FreshInputs ==
    /\ InOrder
    /\ Ready("origin_reset") =>
          /\ FromThisTick("pos/x", Localizer) /\ FromThisTick("pos/y", Localizer)
          /\ strategy = "kinematic" =>
                mem["pos/x"] = Some(kin.x) /\ mem["pos/y"] = Some(kin.y)
    /\ Ready("cte") =>
          /\ FromThisTick("pos/x", "origin_reset")
          /\ FromThisTick("pos/y", "origin_reset")
          /\ mem["pos/x"] # None /\ mem["pos/y"] # None
          /\ writer["path"] \in {"", "path"}
          /\ mem["path"] = IF writer["path"] = "" THEN None ELSE Some(path)

\* C4 witness: CTE is about to be called on a position that is not the one
\* the localizer computed in this tick, the origin having been reset.
C4_Witness ==
    /\ Ready("cte")
    /\ strategy = "kinematic"
    /\ mem["pos/x"] # Some(kin.x)
    /\ FromThisTick("pos/x", "origin_reset")

\* The hooks called when every hook has run, last registered part first.
KinematicHooks ==
    <<"throttle", "steering", "web_ctr", "loc_plot", "pilot", "cte", "plot", "img",
      "path", "origin_reset", "ctr", "enc">>
RemoteHooks ==
    <<"throttle", "steering", "web_ctr", "loc_plot", "pilot", "cte", "plot", "img",
      "path", "origin_reset", "odom", "t265", "ctr", "enc">>
Hooks == IF strategy = "remote" THEN RemoteHooks ELSE KinematicHooks
IsPrefix(a, b) == Len(a) <= Len(b) /\ \A i \in 1..Len(a) : a[i] = b[i]

\* C5: when V.start has returned, whatever ended the loop, the shutdown hook
\* of every registered part that has one, threaded parts included, has been
\* called exactly once, last registered part first (the remote client before
\* the server process); no hook is called before the loop has ended.
C5_ShutdownOrder ==
    /\ phase \in {"init", "run"} => shutdownLog = <<>>
    /\ phase = "stop" => IsPrefix(shutdownLog, Hooks)
    /\ phase = "done" => shutdownLog = Hooks
    /\ phase = "done" /\ strategy = "remote" => ~odom.running /\ ~t265.proc

\* C5 witness: the loop was ended by a stop signal, and V.start
\* has returned with the hooks of the client and the server called.
C5_Witness ==
    /\ phase = "done" /\ cause = "signal" /\ ticksDone = 0
    /\ strategy = "remote"
    /\ shutdownLog = RemoteHooks

\* C6: once a part has raised, no further part is called and no further
\* tick begins, the tick it raised in is not carried to its end, and V.start
\* returns only after the same shutdown sequence as after a normal end.
C6_RaiseAborts ==
    /\ [](cause = "raise" =>
             /\ phase \in {"stop", "done"}
             /\ ticksDone = loop_count - 1
             /\ Last(ran) \in RaisingParts
             /\ phase = "stop" => IsPrefix(shutdownLog, Hooks)
             /\ phase = "done" => shutdownLog = Hooks)
    /\ [][cause = "raise" =>
             /\ ran' = ran
             /\ mem' = mem
             /\ loop_count' = loop_count
             /\ ticksDone' = ticksDone
             /\ cause' = "raise"]_vars

\* C6 witness: CTE raised in the second tick and V.start has returned.
C6_Witness ==
    /\ phase = "done" /\ cause = "raise"
    /\ Last(ran) = "cte" /\ loop_count = 2
    /\ shutdownLog = KinematicHooks

\* The parts registered as threaded, and the remote client's calls.
ThreadedParts == {"enc", "ctr", "odom", "web_ctr"}
CachedPoses == {Num(0)} \cup {Num(p[1]) : p \in PoseReplies} \cup {Num(p[2]) : p \in PoseReplies}
\* update is blocked in recv: a request is out and no reply is there.
Blocked == upc = "recv" /\ sock.rep = None

\* C7: no background loop runs before V.start; V.start starts the loop of
\* every part registered as threaded exactly once, before the first tick,
\* and the loop of no other part; the drive loop's call of the client is
\* run_threaded, each step of which can be taken at once wherever update
\* stands, and which returns cached values.
C7_ThreadedOnce ==
    /\ [](/\ phase = "init" => upc = "idle" /\ \A n \in PartNames : threads[n] = 0
          /\ phase # "init" =>
                \A n \in PartNames :
                   threads[n] = IF n \in ThreadedParts /\ IdxOf(n) # 0 THEN 1 ELSE 0
          /\ upc # "idle" => threads["odom"] = 1
          /\ Turn /\ Parts[idx].name = "odom" => ENABLED OdomRemoteAdapter_run_threaded
          /\ phase = "run" /\ rt.pc = "read0" => ENABLED OdomRemoteAdapter_read0
          /\ phase = "run" /\ rt.pc = "read1" => ENABLED OdomRemoteAdapter_read1
          /\ writer["pos/x"] # "" => mem["pos/x"][1] \in CachedPoses
          /\ writer["pos/y"] # "" => mem["pos/y"][1] \in CachedPoses)
    /\ [][/\ threads' # threads => phase = "init" /\ phase' = "run"
          /\ rt' # rt \/ idx' # idx \/ loop_count' # loop_count =>
                upc' = upc /\ sent' = sent /\ odom.frame' = odom.frame]_vars

\* C7 witness: run_threaded is returning in the first tick while update is
\* blocked in recv.
C7_Witness ==
    /\ phase = "run" /\ rt.pc = "read1" /\ loop_count = 1
    /\ Blocked
    /\ threads["odom"] = 1

\* C8: until a reply has been received the cached pose is (0, 0) and so is
\* every pose the drive loop got from run_threaded; the cached pose changes
\* only in a step that receives a reply, to that reply's (x, z), and the
\* k-th reply received answers the request with frame k, which has been sent.
C8_PoseOnlyOnReply ==
    /\ [](/\ nrecv = 0 => odom.pos = <<Num(0), Num(0)>>
          /\ nrecv = 0 /\ writer["pos/x"] # "" =>
                mem["pos/x"] = Some(Num(0)) /\ mem["pos/y"] = Some(Num(0))
          /\ nrecv <= Len(sent))
    /\ [][odom.pos' # odom.pos =>
             /\ sock.rep # None
             /\ nrecv' = nrecv + 1
             /\ sock.rep[1].for = nrecv'
             /\ nrecv' <= Len(sent)
             /\ odom.pos' = <<Num(sock.rep[1].x), Num(sock.rep[1].z)>>]_vars

\* C8 witness: the second request is out and unanswered, and the cached pose
\* is the one of the first reply.
C8_Witness ==
    /\ Len(sent) = 2 /\ nrecv = 1
    /\ sock.req # None
    /\ odom.pos = <<Num(1), Num(1)>>

\* C9: the n-th request sent carries frame n, the frame counter is the
\* number of requests sent, and the request or reply in flight belongs to
\* the last request sent.
C9_FrameIsCount ==
    /\ \A i \in 1..Len(sent) : sent[i] = i
    /\ odom.frame = Len(sent)
    /\ sock.req # None => sock.req[1].frame = Len(sent)
    /\ sock.rep # None => sock.rep[1].for = Len(sent)

\* C9 witness: two requests were sent, around a run_threaded call and the
\* client's shutdown.
C9_Witness ==
    /\ Len(sent) = 2
    /\ ~odom.running
    /\ writer["pos/x"] # ""

\* The steps of the drive loop in the build with the remote client.
DriveLoop ==
    \/ Common
    \/ Run_t265
    \/ OdomRemoteAdapter_run_threaded
    \/ OdomRemoteAdapter_read0
    \/ OdomRemoteAdapter_read1
    \/ T265Server_shutdown
    \/ OdomRemoteAdapter_shutdown
    \/ OdomRemoteAdapter_shutdown_return

\* C10: while update is blocked in recv and no reply is made, it stays in
\* recv, no request is sent and the cached pose stays; the drive loop can
\* always take its next step meanwhile, a run_threaded call made meanwhile
\* returns the cached pose, and the client's part never raises.
C10_StallNotBlocking ==
    /\ [](/\ Blocked /\ phase \in {"run", "stop"} => ENABLED DriveLoop
          /\ cause = "raise" => Last(ran) # "odom")
    /\ [][Blocked /\ sock'.rep = None =>
             /\ upc' = "recv"
             /\ sent' = sent
             /\ odom.frame' = odom.frame
             /\ odom.pos' = odom.pos
             /\ rt.pc = "read0" /\ rt'.pc = "read1" => rt'.x = odom.pos[1]
             /\ rt.pc = "read1" /\ rt'.pc = "none" =>
                   /\ mem'["pos/y"] = Some(odom.pos[2])
                   /\ mem'["pos/x"] = Some(rt.x)]_vars

\* C10 witness: the second request is never answered so far; a run_threaded
\* call is made while update is blocked in recv and has read the pose of the
\* first reply.
C10_Witness ==
    /\ Blocked /\ sock.req # None
    /\ Len(sent) = 2 /\ nrecv = 1
    /\ phase = "run" /\ rt.pc = "read1"
    /\ rt.x = odom.pos[1] /\ odom.pos[1] # Num(0)

\* The hook of part n has been invoked.
InLog(n) == \E i \in 1..Len(shutdownLog) : shutdownLog[i] = n

\* C11: the client's shutdown clears the running flag and, once the grace
\* period is over, can return wherever update stands; the steps of shutdown
\* leave update, the socket and the cached pose as they are, so a blocked
\* recv is not interrupted; after shutdown the flag stays cleared.
C11_ShutdownDoesNotJoin ==
    /\ [](/\ sd => phase = "stop" /\ ENABLED OdomRemoteAdapter_shutdown_return
          /\ sd \/ InLog("odom") => ~odom.running
          /\ ~InLog("odom") => odom.running)
    /\ [][sd' # sd =>
             /\ upc' = upc /\ sock' = sock /\ sent' = sent /\ nrecv' = nrecv
             /\ odom.pos' = odom.pos /\ odom.frame' = odom.frame]_vars

\* C11 witness: shutdown has returned and V.start too, and update is still
\* blocked in the recv it was in when shutdown was called.
C11_Witness ==
    /\ InLog("odom") /\ ~sd /\ phase = "done"
    /\ ~odom.running
    /\ Blocked /\ sock.req # None

\* The headings a and b are the same direction: equal, or 0 and 2 pi.
SameDirection(a, b) == float_mod_2pi(a) = float_mod_2pi(b)
\* The heading a lies in [0, 2 pi).
Normalized(a) == AngSign(a) >= 0 /\ (a[1] < 4 \/ (a[1] = 4 /\ a[2] < 0))
\* The coordinate c is v within the floating-point tolerance.
Near(c, v) == \A i \in 1..6 : c[i] = v[i]

C13_HeadingNormalized == Normalized(kin.theta)

\* C17, as claimed: from the pose (0, 0, 0), after calls with one steering
\* angle other than 0 whose distances sum to the circumference
\* 2 pi L / tan(angle), the position is (0, 0) within the floating-point
\* tolerance and the heading is the direction 0.
C17_CircleCloses ==
    (/\ trip.n >= 1 /\ trip.same /\ trip.angle # 0
     /\ trip.sum = Ang(4 * kin.L * Tan(trip.angle), 0, 0))
    => /\ Near(kin.x, Num(0))
       /\ Near(kin.y, Num(0))
       /\ SameDirection(kin.theta, Ang(0, 0, 0))

\* The pilot is disabled: the blackboard holds run_pilot = False.
PilotDisabled == mem["run_pilot"] = Some(FALSE)

\* C14, as claimed: no step taken while the pilot is disabled changes the
\* PIDState (gains, integral, previous error, previous timestamp).
C14_DisabledKeepsPIDState ==
    [][PilotDisabled => pid' = pid]_vars

\* C14: no step taken while the pilot is disabled changes the integral, the
\* previous error or the previous timestamp, and none starts an evaluation;
\* the gain Kd changes in such a step only by a button event, by one step
\* of 0.5.
C14_DisabledKeepsIntegral ==
    [][PilotDisabled =>
          /\ pid'.integral = pid.integral
          /\ pid'.prev_err = pid.prev_err
          /\ pid'.prev_tm = pid.prev_tm
          /\ ev'.pc = "busy" => ev.pc = "busy"
          /\ pid'.Kd # pid.Kd =>
                /\ buttons' = buttons + 1
                /\ Abs(pid'.Kd - pid.Kd) = PID_D_STEP]_vars

\* C14 witness: the pilot ran in the first tick and was skipped in the
\* second, a button has changed Kd while it was disabled, and the integral
\* is the one of the first tick.
C14_Witness ==
    /\ Past("pilot") /\ loop_count = 2 /\ PilotDisabled
    /\ wtick["pilot/angle"] = 1
    /\ pid.integral = 1 /\ pid.prev_tm = 1
    /\ pid.Kd # PID_D

\* C15: a button event changes Kd by one step of 0.5 and nothing else of
\* the PIDState, the blackboard or an evaluation in progress; the integral
\* and the previous error change only when the control loop starts an
\* evaluation; an evaluation computes its output with the Kd of the moment
\* it starts, all earlier events included, and returns that output whatever
\* events fire while it is in progress.
C15_GainEvents ==
    [][/\ buttons' # buttons /\ pid' # pid =>
             /\ Abs(pid'.Kd - pid.Kd) = PID_D_STEP
             /\ pid' = [pid EXCEPT !.Kd = pid'.Kd]
             /\ mem' = mem /\ ev' = ev
       /\ (pid'.integral # pid.integral \/ pid'.prev_err # pid.prev_err) =>
             Ready("pilot") /\ ev'.pc = "busy" /\ buttons' = buttons
       /\ ev.pc = "none" /\ ev'.pc = "busy" =>
             /\ ev'.Kd = pid.Kd
             /\ ev'.out = PID_P * mem["cte/error"][1] + PID_I * pid'.integral
                             + pid.Kd * (mem["cte/error"][1] - pid.prev_err)
       /\ ev.pc = "busy" /\ ev'.pc = "busy" => ev' = ev
       /\ ev.pc = "busy" /\ ev'.pc = "none" =>
             /\ mem'["pilot/angle"] = Some(ev.out)
             /\ ev.out = PID_P * pid.prev_err + PID_I * pid.integral + ev.Kd * ev.d
      ]_vars

\* C15 witness: a button fires while an evaluation is in progress: the gain
\* is the new one and the evaluation holds the output of the old one.
C15_Witness ==
    /\ ev.pc = "busy" /\ loop_count = 1 /\ buttons = 1
    /\ ev.Kd = PID_D /\ pid.Kd = PID_D + PID_D_STEP
    /\ ev.d = 1
    /\ ev.out = PID_P + PID_I + PID_D

\* The configuration has an error: an invalid log level, a wheelbase or a
\* tick rate that is not positive.
ConfigError ==
    \/ numeric_level(log_level).type # "int"
    \/ kin.L <= 0
    \/ DRIVE_LOOP_HZ <= 0

\* C16, as claimed: with a configuration error the drive loop is never
\* entered and no tick is executed.
C16_ConfigErrorFatal ==
    ConfigError => phase \in {"main", "init", "failed"} /\ loop_count = 0


\* The poses update has ever been able to cache: the initial one and those
\* of the replies.
Snapshots ==
    {<<Num(0), Num(0)>>} \cup {<<Num(p[1]), Num(p[2])>> : p \in PoseReplies}

\* C18: every pose run_threaded returns is a snapshot: both components are
\* those of one reply, or of the initial (0, 0).
C18_AtomicSnapshot ==
    [][rt.pc = "read1" /\ rt'.pc = "none" =>
          <<mem'["pos/x"][1], mem'["pos/y"][1]>> \in Snapshots]_vars


\* C19: once both conditions ran in a tick, run_user and run_pilot are
\* complements and say whether this tick's mode is user; and when the arbiter
\* has run in a mode other than user, the CTE and the pilot ran before it in
\* the same tick, the error is that of this tick's position and the angle
\* forwarded is the one the pilot wrote in this tick.
C19_OneModePerTick ==
    /\ Past("PilotCondition") =>
          /\ wtick["user/mode"] = loop_count
          /\ FromThisTick("run_user", "UserCondition")
          /\ FromThisTick("run_pilot", "PilotCondition")
          /\ mem["run_user"] = Some(mem["user/mode"] = Some("user"))
          /\ mem["run_pilot"] = Some(~mem["run_user"][1])
    /\ (Past("DriveMode") /\ mem["user/mode"] # Some("user")) =>
          /\ \E i, j, k \in 1..Len(ran) :
                /\ i < j /\ j < k
                /\ ran[i] = "cte" /\ ran[j] = "pilot" /\ ran[k] = "DriveMode"
          /\ FromThisTick("pos/x", "origin_reset")
          /\ FromThisTick("pos/y", "origin_reset")
          /\ FromThisTick("cte/error", "cte")
          /\ mem["cte/error"] = Some(CTE_run(mem["path"], mem["pos/x"], mem["pos/y"]))
          /\ FromThisTick("pilot/angle", "pilot")
          /\ pid.prev_err = mem["cte/error"][1] /\ pid.prev_tm = loop_count
          /\ FromThisTick("angle", "DriveMode")
          /\ mem["angle"] = mem["pilot/angle"]

\* C19 witness: in the second tick the arbiter has forwarded, in mode
\* local_angle, the angle the pilot computed in that tick.
C19_Witness ==
    /\ Past("DriveMode") /\ loop_count = 2
    /\ mem["user/mode"] = Some("local_angle")
    /\ mem["run_pilot"] = Some(TRUE) /\ mem["run_user"] = Some(FALSE)
    /\ wtick["pilot/angle"] = 2
    /\ mem["angle"] = mem["pilot/angle"] /\ mem["angle"] # None


\* Every request is answered sooner or later.
Answered == [](sock.req # None ~> sock.req = None)

\* C20: once shutdown has cleared the flag it stays cleared, update does not
\* come back to the point where it sends, and a request is sent only from
\* that point, so at most one more is sent; and if every request is
\* answered, update leaves its loop.
C20_LoopExits ==
    /\ [][~odom.running =>
             /\ ~odom.running'
             /\ upc' = "send" => upc = "send"
             /\ sent' # sent =>
                   upc = "send" /\ upc' = "recv" /\ Len(sent') = Len(sent) + 1]_vars
    /\ Answered => (~odom.running ~> upc = "exit")

\* C20 witness: one request was sent after the flag was cleared, it was
\* answered, and update has left its loop.
C20_Witness ==
    /\ ~odom.running /\ upc = "exit"
    /\ Len(sent) = MaxFrames + 1 /\ nrecv = Len(sent)

====
